---- MODULE Spec2Model ----
(***************************************************************************)
(* Model of count-fasta-plots (src/src/main.rs): main reads the records    *)
(* of a CSV file, splits a bitmap into five panels and calls               *)
(* create_box_plot once per metric column; create_box_plot sorts the       *)
(* column, picks the quartiles by index, derives the fences and hands the  *)
(* box, the median line, the two whisker segments and the outlier points   *)
(* to the drawing backend.                                                 *)
(*                                                                         *)
(* Numbers.  The samples are f64.  The model covers finite whole-number    *)
(* samples and stores every f64 as twice its value (F64(v) = 2v), so that  *)
(* 1.5 * iqr is an integer; on such samples every f64 operation of the     *)
(* program is exact, so the integers below are the program's values.       *)
(***************************************************************************)
EXTENDS Integers, Sequences, FiniteSets

\* ---- bounds of the model ------------------------------------------------
MaxLen == 5   \* longest exhaustively enumerated column
MaxVal == 2   \* samples of the enumerated columns are 0..MaxVal

\* ---- f64 values -----------------------------------------------------------
F64(v) == 2 * v

\* 1.5 * x  (main.rs:61-62); x is the difference of two whole samples
Mul1_5(x) == (3 * x) \div 2

Vals == {F64(v) : v \in 0..MaxVal}

\* the two concrete sample sequences of the specification
Scenario10 == [i \in 1..10 |-> F64(i)]
ScenarioOutlier == [i \in 1..10 |-> IF i = 10 THEN F64(100) ELSE F64(i)]
\* a column with a sample exactly on the upper fence and one beyond it
\* (sorted 0 0 0 1 1 1 2 5 9: q1 = 0, q3 = 2, upper fence 5)
ScenarioOnFence == <<F64(1), F64(9), F64(0), F64(5), F64(0), F64(1), F64(2),
                     F64(0), F64(1)>>
Scenarios == {Scenario10, ScenarioOutlier, ScenarioOnFence}

\* numbers of records a CSV file of the model can hold
RecordCounts == (0..MaxLen) \cup {Len(s) : s \in Scenarios}

\* the values one metric column of n records can hold (main.rs:113-117)
Columns(n) == (IF n <= MaxLen THEN [1..n -> Vals] ELSE {})
                \cup {s \in Scenarios : Len(s) = n}

\* ---- create_box_plot: the statistics ------------------------------------
RECURSIVE Insert(_, _)
Insert(x, s) == IF s = <<>> THEN <<x>>
                ELSE IF x <= Head(s) THEN <<x>> \o s
                ELSE <<Head(s)>> \o Insert(x, Tail(s))

\* mutant: the copy is never sorted
SortAscSkipped(s) == s

RECURSIVE SortAsc(_)
\* data.to_vec() followed by the stable sort_by(partial_cmp)
SortAsc(s) == IF s = <<>> THEN <<>> ELSE Insert(Head(s), SortAsc(Tail(s)))

\* mutant: the product is rounded to nearest instead of truncated
Q1IdxRounded(n) == (n + 2) \div 4

\* (len as f64 * 0.25) as usize, exact for every len below 2^51
Q1Idx(n) == n \div 4
\* mutant: the product is rounded to nearest instead of truncated
Q2IdxRounded(n) == (n + 1) \div 2

\* (len as f64 * 0.5) as usize
Q2Idx(n) == n \div 2
\* mutant: the product is rounded up instead of truncated
Q3IdxCeil(n) == (3 * n + 3) \div 4

\* (len as f64 * 0.75) as usize
Q3Idx(n) == (3 * n) \div 4

\* the bounds check of Vec indexing; the index is 0-based
InBounds(s, i) == i >= 0 /\ i < Len(s)
At(s, i) == s[i + 1]

Iqr(q1v, q3v) == q3v - q1v
\* mutant: the sign of the fence offset is flipped
LowerFenceFlipped(q1v, iqrv) == q1v + Mul1_5(iqrv)
LowerFence(q1v, iqrv) == q1v - Mul1_5(iqrv)
UpperFence(q3v, iqrv) == q3v + Mul1_5(iqrv)

\* mutant: a sample on a fence counts as an outlier
IsOutlierInclusive(x, lo, hi) == x <= lo \/ x >= hi

\* mutant: only the upper fence is tested
IsOutlierUpperOnly(x, lo, hi) == x > hi

\* the filter of the outlier series
IsOutlier(x, lo, hi) == x < lo \/ x > hi

RECURSIVE Filter(_, _, _)
Filter(s, lo, hi) ==
    IF s = <<>> THEN <<>>
    ELSE (IF IsOutlier(Head(s), lo, hi) THEN <<Head(s)>> ELSE <<>>)
           \o Filter(Tail(s), lo, hi)

\* the whisker segments as drawn: <<from, to>>
LowerWhisker(lo, q1v) == <<lo, q1v>>
UpperWhisker(q3v, hi) == <<q3v, hi>>

\* the drawing calls of create_box_plot, in program order; each returns a
\* Result that `?` propagates
DrawSteps == <<"chart", "box", "median", "whisker_lo", "whisker_hi", "outliers">>
NSteps == Len(DrawSteps)

\* the primitives on the panel when the call fails at step f (0: no failure)
EmittedUpTo(f) == {DrawSteps[i] : i \in {j \in 2..NSteps : f = 0 \/ j < f}}

\* The locals and the outcome of one call create_box_plot(data), where the
\* drawing backend fails at step f (0: never).
\*   result: "Err" (a drawing call failed), "panic" (index out of bounds),
\*           "Ok"
\* The axis range of lines 30-40 (min, max, 10% padding) only scales the
\* picture and is not part of the state; on an empty column the chart set-up
\* either returns Err or goes on to the indexing, which panics.
CreateBoxPlot(d, f) ==
    LET s   == SortAsc(d)
        n   == Len(s)
        i1  == Q1Idx(n)
        i2  == Q2Idx(n)
        i3  == Q3Idx(n)
        none == [result |-> "Err", stats |-> FALSE, sorted_data |-> <<>>,
                 q1_idx |-> 0, q2_idx |-> 0, q3_idx |-> 0,
                 q1 |-> 0, median |-> 0, q3 |-> 0, iqr |-> 0,
                 lower_fence |-> 0, upper_fence |-> 0,
                 whisker_lo |-> <<>>, whisker_hi |-> <<>>,
                 outliers |-> <<>>, emitted |-> {}]
    IN  IF f = 1 THEN none
        ELSE IF ~(InBounds(s, i1) /\ InBounds(s, i2) /\ InBounds(s, i3))
        THEN [none EXCEPT !.result = "panic", !.sorted_data = s,
                          !.q1_idx = i1, !.q2_idx = i2, !.q3_idx = i3]
        ELSE LET a  == At(s, i1)
                 m  == At(s, i2)
                 b  == At(s, i3)
                 r  == Iqr(a, b)
                 lo == LowerFence(a, r)
                 hi == UpperFence(b, r)
             IN [result |-> IF f = 0 THEN "Ok" ELSE "Err", stats |-> TRUE,
                 sorted_data |-> s,
                 q1_idx |-> i1, q2_idx |-> i2, q3_idx |-> i3,
                 q1 |-> a, median |-> m, q3 |-> b, iqr |-> r,
                 lower_fence |-> lo, upper_fence |-> hi,
                 whisker_lo |-> LowerWhisker(lo, a),
                 whisker_hi |-> UpperWhisker(b, hi),
                 outliers |-> Filter(s, lo, hi),
                 emitted |-> EmittedUpTo(f)]

\* ---- main ------------------------------------------------------------------
NPanels == 5

VARIABLES
    pc,         \* position of main
    nrec,       \* records.len()
    k,          \* index of the next panel, areas[k]
    data,       \* the column passed to the last create_box_plot call
    call,       \* locals, drawn primitives and result of that call
    panels,     \* per panel: "pending", "drawn", "failed"
    presented   \* root.present() succeeded

vars == <<pc, nrec, k, data, call, panels, presented>>

NoCall == [CreateBoxPlot(<<>>, 1) EXCEPT !.result = "none"]

Init ==
    /\ pc = "args"
    /\ nrec = 0
    /\ k = 0
    /\ data = <<>>
    /\ call = NoCall
    /\ panels = [p \in 0..(NPanels - 1) |-> "pending"]
    /\ presented = FALSE

\* std::env::args().nth(1).expect(..)
Args ==
    /\ pc = "args"
    /\ \E given \in BOOLEAN : pc' = IF given THEN "read" ELSE "panic"
    /\ UNCHANGED <<nrec, k, data, call, panels, presented>>

\* from_path(..)? and deserialize().collect()?
ReadCsv ==
    /\ pc = "read"
    /\ \/ /\ pc' = "exit_err"
          /\ UNCHANGED nrec
       \/ /\ \E n \in RecordCounts : nrec' = n
          /\ pc' = "root"
    /\ UNCHANGED <<k, data, call, panels, presented>>

\* BitMapBackend::new, root.fill(&WHITE)?, split_evenly((5, 1))
FillRoot ==
    /\ pc = "root"
    /\ \E ok \in BOOLEAN : pc' = IF ok THEN "panel" ELSE "exit_err"
    /\ UNCHANGED <<nrec, k, data, call, panels, presented>>

\* the call create_box_plot(&areas[k], &column_k, ..): the whole function body
PlotPanel ==
    /\ pc = "panel"
    /\ k < NPanels
    /\ \E d \in Columns(nrec), f \in 0..NSteps :
         /\ data' = d
         /\ call' = CreateBoxPlot(d, f)
    /\ pc' = IF call'.result = "panic" THEN "panic" ELSE "returned"
    /\ panels' = [panels EXCEPT ![k] = IF call'.result = "Ok" THEN "drawn"
                                        ELSE "failed"]
    /\ UNCHANGED <<nrec, k, presented>>

\* the `?` applied to the call's result in main; the callee's locals are gone
Propagate ==
    /\ pc = "returned"
    /\ pc' = IF call.result = "Err" THEN "exit_err"
             ELSE IF k + 1 = NPanels THEN "present" ELSE "panel"
    /\ k' = IF call.result = "Err" THEN k ELSE k + 1
    /\ data' = <<>>
    /\ call' = NoCall
    /\ UNCHANGED <<nrec, panels, presented>>

\* root.present()?; println!; Ok(())
Present ==
    /\ pc = "present"
    /\ \E ok \in BOOLEAN :
         /\ presented' = ok
         /\ pc' = IF ok THEN "exit_ok" ELSE "exit_err"
    /\ UNCHANGED <<nrec, k, data, call, panels>>

Next == Args \/ ReadCsv \/ FillRoot \/ PlotPanel \/ Propagate \/ Present

Spec == Init /\ [][Next]_vars

\* ---- properties ---------------------------------------------------------
\* a create_box_plot call has run and main has not yet consumed its result
Called == pc = "returned" \/ (pc = "panic" /\ call.result = "panic")

\* the call ended at the chart set-up, before any statistics
ChartFailed == call.result = "Err" /\ ~call.stats

Count(s, v) == Cardinality({i \in DOMAIN s : s[i] = v})
Range(s) == {s[i] : i \in DOMAIN s}
SameSamples(s, t) == Len(s) = Len(t) /\ \A v \in Range(s) \cup Range(t) : Count(s, v) = Count(t, v)
Ascending(s) == \A i \in 1..(Len(s) - 1) : s[i] <= s[i + 1]
SetMin(S) == CHOOSE x \in S : \A y \in S : x <= y
SetMax(S) == CHOOSE x \in S : \A y \in S : x >= y

\* C1: for a non-empty column the sorted copy is the ascending arrangement of
\* the samples, and q1, median and q3 are its elements at the 0-based
\* positions floor(n/4), floor(n/2) and floor(3n/4); for 1..10 they are 3, 6, 8.
C1_NearestRankFloor ==
    (Called /\ Len(data) >= 1 /\ ~ChartFailed) =>
        /\ call.stats
        /\ Ascending(call.sorted_data)
        /\ SameSamples(call.sorted_data, data)
        /\ call.q1 = call.sorted_data[(Len(data) \div 4) + 1]
        /\ call.median = call.sorted_data[(Len(data) \div 2) + 1]
        /\ call.q3 = call.sorted_data[((3 * Len(data)) \div 4) + 1]
        /\ (data = Scenario10 =>
              /\ call.q1 = F64(3) /\ call.median = F64(6) /\ call.q3 = F64(8)
              /\ call.iqr = F64(5)
              /\ 2 * call.lower_fence = -F64(9)
              /\ 2 * call.upper_fence = F64(31))

C1_Witness ==
    Called /\ data = Scenario10 /\ call.stats /\ call.q1 = F64(3)

\* the whisker end points the specification describes
SpecWhiskerMin ==
    LET S == {x \in Range(data) : x >= call.lower_fence}
    IN IF S = {} THEN call.q1 ELSE SetMin(S)
SpecWhiskerMax ==
    LET S == {x \in Range(data) : x <= call.upper_fence}
    IN IF S = {} THEN call.q3 ELSE SetMax(S)

\* C2: the lower whisker ends at the smallest sample >= lower_fence and the
\* upper whisker at the largest sample <= upper_fence (q1, q3 when there is
\* none); 9 for 1..9,100 and 1, 10 for 1..10.
C2_WhiskersEndAtSamples ==
    (Called /\ call.stats) =>
        /\ call.whisker_lo[1] = SpecWhiskerMin
        /\ call.whisker_hi[2] = SpecWhiskerMax

\* C3: for a non-empty column the drawn geometry is ordered:
\* whisker_min <= q1 <= median <= q3 <= whisker_max.
C3_GeometryOrdered ==
    (Called /\ Len(data) >= 1 /\ ~ChartFailed) =>
        /\ call.stats
        /\ call.whisker_lo[1] <= call.q1
        /\ call.whisker_lo[2] = call.q1
        /\ call.q1 <= call.median
        /\ call.median <= call.q3
        /\ call.whisker_hi[1] = call.q3
        /\ call.q3 <= call.whisker_hi[2]

C3_Witness ==
    /\ Called /\ call.stats
    /\ call.whisker_lo[1] < call.q1
    /\ call.q1 < call.median
    /\ call.median < call.q3
    /\ call.q3 < call.whisker_hi[2]

\* C4: the outlier points are exactly the samples strictly below lower_fence
\* or strictly above upper_fence, each as often as it occurs in the column; a
\* sample on a fence is not among them.
C4_OutliersExact ==
    (Called /\ call.stats) =>
        /\ \A v \in Range(call.outliers) :
              v < call.lower_fence \/ v > call.upper_fence
        /\ \A v \in Range(data) :
              Count(call.outliers, v) =
                 IF v < call.lower_fence \/ v > call.upper_fence
                 THEN Count(data, v) ELSE 0
        /\ call.lower_fence \notin Range(call.outliers)
        /\ call.upper_fence \notin Range(call.outliers)

C4_Witness ==
    /\ Called /\ call.stats /\ data = ScenarioOnFence
    /\ call.upper_fence \in Range(data)
    /\ call.outliers = <<F64(9)>>

\* the four categories of a sample x
InLowerRegion(x) == call.lower_fence <= x /\ x < call.q1
InBox(x) == call.q1 <= x /\ x <= call.q3
InUpperRegion(x) == call.q3 < x /\ x <= call.upper_fence
InOutliers(x) == x \in Range(call.outliers)
NumCategories(x) ==
    (IF InLowerRegion(x) THEN 1 ELSE 0) + (IF InBox(x) THEN 1 ELSE 0)
      + (IF InUpperRegion(x) THEN 1 ELSE 0) + (IF InOutliers(x) THEN 1 ELSE 0)
NumIn(P(_)) == Cardinality({i \in DOMAIN data : P(data[i])})

\* C5: every sample is in exactly one of lower whisker region, box, upper
\* whisker region and outliers, and the four counts add up to the length of
\* the column.
C5_Partition ==
    (Called /\ call.stats) =>
        /\ \A i \in DOMAIN data : NumCategories(data[i]) = 1
        /\ NumIn(InLowerRegion) + NumIn(InBox) + NumIn(InUpperRegion)
             + Len(call.outliers) = Len(data)

C5_Witness ==
    /\ Called /\ call.stats /\ data = ScenarioOutlier
    /\ NumIn(InLowerRegion) = 2 /\ NumIn(InBox) = 6
    /\ NumIn(InUpperRegion) = 1 /\ call.outliers = <<F64(100)>>

\* C6: on an empty column the call returns an error value to its caller: it
\* does not panic and draws no geometry.
C6_EmptyIsError ==
    (Called /\ Len(data) = 0) =>
        /\ pc # "panic"
        /\ call.result = "Err"
        /\ call.emitted = {}

\* main has stopped
Terminated == pc \in {"exit_ok", "exit_err", "panic"}

\* C7: a failed panel does not stop the run: when main stops after a panel
\* failed, every panel has been attempted and the image has been presented.
C7_FailureSkipsPanel ==
    (Terminated /\ \E p \in DOMAIN panels : panels[p] = "failed") =>
        /\ \A p \in DOMAIN panels : panels[p] # "pending"
        /\ presented

\* C8: for a column [v] the three indices are 0, q1 = median = q3 = v,
\* iqr = 0, both fences are v, there is no outlier and both whiskers end at v.
C8_SingleSample ==
    (Called /\ Len(data) = 1 /\ ~ChartFailed) =>
        /\ call.stats
        /\ call.q1_idx = 0 /\ call.q2_idx = 0 /\ call.q3_idx = 0
        /\ call.q1 = data[1] /\ call.median = data[1] /\ call.q3 = data[1]
        /\ call.iqr = 0
        /\ call.lower_fence = data[1] /\ call.upper_fence = data[1]
        /\ call.outliers = <<>>
        /\ call.whisker_lo = <<data[1], data[1]>>
        /\ call.whisker_hi = <<data[1], data[1]>>

C8_Witness ==
    Called /\ Len(data) = 1 /\ call.result = "Ok" /\ call.q1 = data[1]

\* the numbers a call computes
Summary(c) == <<c.stats, c.q1, c.median, c.q3, c.iqr, c.lower_fence,
                c.upper_fence, c.whisker_lo, c.whisker_hi, c.outliers>>
Swap(s, i, j) == [s EXCEPT ![i] = s[j], ![j] = s[i]]
Reverse(s) == [i \in 1..Len(s) |-> s[Len(s) + 1 - i]]

\* C9: the statistics and geometry depend only on the multiset of samples:
\* the column with two neighbouring samples exchanged, and the column
\* reversed, give the numbers the call computed (exchanges of neighbours
\* generate every reordering, and every reordering of an enumerated column is
\* an enumerated column).
C9_OrderIrrelevant ==
    (Called /\ ~ChartFailed) =>
        /\ \A i \in 1..(Len(data) - 1) :
              Summary(CreateBoxPlot(Swap(data, i, i + 1), 0)) = Summary(call)
        /\ Summary(CreateBoxPlot(Reverse(data), 0)) = Summary(call)

C9_Witness ==
    /\ Called /\ call.stats
    /\ ~Ascending(data) /\ ~Ascending(Reverse(data))
    /\ call.outliers # <<>>

\* C10: for a column of n >= 1 samples, 0 <= q1_idx <= q2_idx <= q3_idx <= n-1,
\* so no indexing of the sorted copy is out of range.
C10_IndicesInBounds ==
    (Called /\ Len(data) >= 1 /\ ~ChartFailed) =>
        /\ 0 <= call.q1_idx
        /\ call.q1_idx <= call.q2_idx
        /\ call.q2_idx <= call.q3_idx
        /\ call.q3_idx <= Len(data) - 1
        /\ call.result # "panic"

C10_Witness ==
    /\ Called /\ call.stats /\ Len(data) = MaxLen
    /\ call.q1_idx < call.q2_idx /\ call.q2_idx < call.q3_idx
    /\ call.q3_idx = Len(data) - 1 \/ call.q3_idx = Len(data) - 2

====
